---- MODULE Spec2Model ----
(***************************************************************************)
(* A model of math3.js, a 3D linear algebra library of pure functions over *)
(* 3-vectors {x, y, z} and 3x3 matrices {x, y, z} of row vectors.          *)
(*                                                                         *)
(* Numbers.  A JS number is modelled as the exact rational n/d in lowest   *)
(* terms with d > 0, extended by the three IEEE-754 specials, written with *)
(* d = 0:  0/0 is NaN, 1/0 is +Infinity, -1/0 is -Infinity.  Rounding and  *)
(* the sign of zero are not modelled: the arithmetic is the arithmetic of  *)
(* the reals wherever the result is finite.  Math.sqrt yields a surd       *)
(* (n/d)*sqrt(r), r squarefree, so that v3_len and v3_unit stay exact.     *)
(*                                                                         *)
(* v3_unit (lines 109-117) lacks the ");" that closes its call of v3 on    *)
(* line 116; it is modelled with the call closed there.                    *)
(***************************************************************************)
EXTENDS Integers, Sequences, FiniteSets, TLC

VARIABLES call, ret, prev, heap, pend

vars == <<call, ret, prev, heap, pend>>

\* Largest integer component of the vectors and matrices given as inputs.
MaxVal == 1

---------------------------------------------------------------------------
(* JS numbers *)

Abs(i) == IF i < 0 THEN -i ELSE i

Sign(i) == IF i < 0 THEN -1 ELSE IF i > 0 THEN 1 ELSE 0

RECURSIVE Gcd(_, _)
Gcd(a, b) == IF b = 0 THEN a ELSE Gcd(b, a % b)

\* The number n/d in canonical form; n/0 is a special.
Norm(n, d) ==
    IF d = 0 THEN [n |-> Sign(n), d |-> 0]
    ELSE LET g == Gcd(Abs(n), Abs(d))
             s == Sign(d)
         IN  [n |-> (s * n) \div g, d |-> (s * d) \div g]

Int2Num(i) == [n |-> i, d |-> 1]

NaN == [n |-> 0, d |-> 0]

Infinity == [n |-> 1, d |-> 0]

Zero == Int2Num(0)

One == Int2Num(1)

IsNaN(a) == a.d = 0 /\ a.n = 0

IsFinite(a) == a.d # 0

\* a * b
Mul(a, b) == Norm(a.n * b.n, a.d * b.d)

\* a + b
Add(a, b) ==
    IF a.d = 0 /\ b.d = 0
    THEN (IF a.n = b.n THEN a ELSE NaN)
    ELSE Norm(a.n * b.d + b.n * a.d, a.d * b.d)

\* -a
Neg(a) == [n |-> 0 - a.n, d |-> a.d]

\* a - b
Sub(a, b) == Add(a, Neg(b))

\* a / b
Div(a, b) ==
    LET rb == IF b.d = 0 THEN (IF b.n = 0 THEN NaN ELSE Zero)
              ELSE IF b.n = 0 THEN Infinity
              ELSE Norm(b.d, b.n)
    IN  Mul(a, rb)

\* The largest q with q*q dividing k, for k >= 1.
SquarePart(k) == CHOOSE q \in 1..k :
    /\ k % (q * q) = 0
    /\ \A p \in (q + 1)..k : k % (p * p) # 0

\* The surd (n/d)*sqrt(r) in canonical form.
Surd(n, d, r) ==
    IF d = 0 THEN [n |-> Sign(n), d |-> 0, r |-> 1]
    ELSE IF n = 0 THEN [n |-> 0, d |-> 1, r |-> 1]
    ELSE LET q == Norm(n, d) IN [n |-> q.n, d |-> q.d, r |-> r]

\* Math.sqrt(a): sqrt(n/d) = sqrt(n*d)/d.
Sqrt(a) ==
    IF a.d = 0 THEN (IF a.n = 1 THEN Surd(1, 0, 1) ELSE Surd(0, 0, 1))
    ELSE IF a.n < 0 THEN Surd(0, 0, 1)
    ELSE IF a.n = 0 THEN Surd(0, 1, 1)
    ELSE LET k == a.n * a.d
             q == SquarePart(k)
         IN  Surd(q, a.d, k \div (q * q))

\* 1.0 / s for a surd s: 1/((n/d)*sqrt(r)) = (d/(n*r))*sqrt(r).
SurdRecip(s) ==
    IF s.d = 0 THEN (IF s.n = 0 THEN Surd(0, 0, 1) ELSE Surd(0, 1, 1))
    ELSE IF s.n = 0 THEN Surd(1, 0, 1)
    ELSE Surd(s.d * Sign(s.n), Abs(s.n) * s.r, s.r)

\* a * s for a number a and a surd s.
MulSurd(a, s) == Surd(a.n * s.n, a.d * s.d, s.r)

---------------------------------------------------------------------------
(* JS values that are not numbers, and their coercion by Number() *)

Undefined == [t |-> "undefined"]

Null == [t |-> "null"]

\* A string is the sequence of its characters.
Str(chars) == [t |-> "string", s |-> chars]

Digits == <<"0", "1", "2", "3", "4", "5", "6", "7", "8", "9">>

IsDigit(c) == \E i \in 1..Len(Digits) : Digits[i] = c

DigitVal(c) == (CHOOSE i \in 1..Len(Digits) : Digits[i] = c) - 1

RECURSIVE DecimalValue(_)
DecimalValue(ds) ==
    IF ds = <<>> THEN 0
    ELSE 10 * DecimalValue(SubSeq(ds, 1, Len(ds) - 1)) + DigitVal(ds[Len(ds)])

\* StringToNumber: the empty string is +0, a signed decimal integer literal
\* is its value, every other string over the modelled alphabet is NaN.
StringToNumber(s) ==
    LET signed == s # <<>> /\ s[1] \in {"-", "+"}
        ds     == IF signed THEN Tail(s) ELSE s
    IN  IF s = <<>> THEN Zero
        ELSE IF ds # <<>> /\ \A i \in 1..Len(ds) : IsDigit(ds[i])
        THEN Int2Num(IF s[1] = "-" THEN 0 - DecimalValue(ds) ELSE DecimalValue(ds))
        ELSE NaN

\* Number(v): a number is itself; undefined is NaN; null is +0.
Number(v) ==
    IF "t" \notin DOMAIN v THEN v
    ELSE IF v.t = "string" THEN StringToNumber(v.s)
    ELSE IF v.t = "null" THEN Zero
    ELSE NaN

---------------------------------------------------------------------------
(* Vector3 *)

v3(nx, ny, nz) == [x |-> Number(nx), y |-> Number(ny), z |-> Number(nz)]

v3_add(vl, vr) == v3(Add(vl.x, vr.x), Add(vl.y, vr.y), Add(vl.z, vr.z))

v3_sub(vl, vr) == v3(Sub(vl.x, vr.x), Sub(vl.y, vr.y), Sub(vl.z, vr.z))

v3_scale(vl, nr) == v3(Mul(vl.x, nr), Mul(vl.y, nr), Mul(vl.z, nr))

v3_len(v) == Sqrt(Add(Add(Mul(v.x, v.x), Mul(v.y, v.y)), Mul(v.z, v.z)))

\* v3_unit as it would be with a guard against the zero length.
v3_unit_guarded(v) ==
    IF v3_len(v) = Surd(0, 1, 1) THEN v3(Zero, Zero, Zero)
    ELSE LET inv_len == SurdRecip(v3_len(v))
         IN  v3(MulSurd(v.x, inv_len), MulSurd(v.y, inv_len), MulSurd(v.z, inv_len))

v3_unit(v) ==
    LET inv_len == SurdRecip(v3_len(v))
    IN  v3(MulSurd(v.x, inv_len), MulSurd(v.y, inv_len), MulSurd(v.z, inv_len))

v3_dot(vl, vr) == Add(Add(Mul(vl.x, vr.x), Mul(vl.y, vr.y)), Mul(vl.z, vr.z))

\* v3_cross with the operands of its y component in the other order.
v3_cross_flipped(vl, vr) ==
    v3(Sub(Mul(vl.y, vr.z), Mul(vl.z, vr.y)),
       Sub(Mul(vl.x, vr.z), Mul(vl.z, vr.x)),
       Sub(Mul(vl.x, vr.y), Mul(vl.y, vr.x)))

\* The first of the two declarations of v3_cross (lines 140-147).
v3_cross_first(vl, vr) ==
    v3(Sub(Mul(vl.y, vr.z), Mul(vl.z, vr.y)),
       Sub(Mul(vl.z, vr.x), Mul(vl.x, vr.z)),
       Sub(Mul(vl.x, vr.y), Mul(vl.y, vr.x)))

\* The second declaration (lines 246-253), the one a call of v3_cross runs:
\* of two function declarations of one name the later one is bound.
v3_cross(vl, vr) ==
    v3(Sub(Mul(vl.y, vr.z), Mul(vl.z, vr.y)),
       Sub(Mul(vl.z, vr.x), Mul(vl.x, vr.z)),
       Sub(Mul(vl.x, vr.y), Mul(vl.y, vr.x)))

---------------------------------------------------------------------------
(* Matrix3x3 *)

m3x3(nxx, nxy, nxz, nyx, nyy, nyz, nzx, nzy, nzz) ==
    [x |-> v3(nxx, nxy, nxz), y |-> v3(nyx, nyy, nyz), z |-> v3(nzx, nzy, nzz)]

m3x3_identity == m3x3(One, Zero, Zero, Zero, One, Zero, Zero, Zero, One)

\* m3x3_transp with m.z.y where m.y.z belongs.
m3x3_transp_typo(m) ==
    m3x3(m.x.x, m.y.x, m.z.x,
         m.x.y, m.y.y, m.z.y,
         m.x.z, m.z.y, m.z.z)

m3x3_transp(m) ==
    m3x3(m.x.x, m.y.x, m.z.x,
         m.x.y, m.y.y, m.z.y,
         m.x.z, m.y.z, m.z.z)

\* Angles are whole numbers of quarter turns: k stands for k*pi/2 radians,
\* where Math.sin and Math.cos are taken as exactly 0, 1 or -1.
Sin(k) == Int2Num(<<0, 1, 0, -1>>[(k % 4) + 1])

Cos(k) == Int2Num(<<1, 0, -1, 0>>[(k % 4) + 1])

\* m3x3_euler with SINH where the last component has COSH.
m3x3_euler_typo(nhead, npitch, nroll) ==
    LET SINH == Sin(nhead)
        SINP == Sin(npitch)
        SINR == Sin(nroll)
        COSH == Cos(nhead)
        COSP == Cos(npitch)
        COSR == Cos(nroll)
    IN  m3x3(
        Sub(Mul(COSR, COSH), Mul(Mul(SINR, SINP), SINH)), Mul(Neg(SINR), COSP), Add(Mul(COSR, SINH), Mul(Mul(SINR, SINP), COSH)),
        Add(Mul(SINR, COSH), Mul(Mul(COSR, SINP), SINH)), Mul(COSR, COSP),      Sub(Mul(SINR, SINH), Mul(Mul(COSR, SINP), COSH)),
        Mul(Neg(COSP), SINH),                             SINP,                 Mul(COSP, SINH))

m3x3_euler(nhead, npitch, nroll) ==
    LET SINH == Sin(nhead)
        SINP == Sin(npitch)
        SINR == Sin(nroll)
        COSH == Cos(nhead)
        COSP == Cos(npitch)
        COSR == Cos(nroll)
    IN  m3x3(
        Sub(Mul(COSR, COSH), Mul(Mul(SINR, SINP), SINH)), Mul(Neg(SINR), COSP), Add(Mul(COSR, SINH), Mul(Mul(SINR, SINP), COSH)),
        Add(Mul(SINR, COSH), Mul(Mul(COSR, SINP), SINH)), Mul(COSR, COSP),      Sub(Mul(SINR, SINH), Mul(Mul(COSR, SINP), COSH)),
        Mul(Neg(COSP), SINH),                             SINP,                 Mul(COSP, COSH))

\* The determinant m3x3_inv computes, by cofactors along row x.
det(m) ==
    Add(Sub(Mul(m.x.x, Sub(Mul(m.y.y, m.z.z), Mul(m.z.y, m.y.z))),
            Mul(m.x.y, Sub(Mul(m.y.x, m.z.z), Mul(m.y.z, m.z.x)))),
        Mul(m.x.z, Sub(Mul(m.y.x, m.z.y), Mul(m.y.y, m.z.x))))

\* m3x3_inv with the operands of its second cofactor in the other order.
m3x3_inv_flipped(m) ==
    IF det(m) = Zero THEN m3x3_identity
    ELSE LET invdet == Div(One, det(m))
         IN  m3x3(
             Mul(Sub(Mul(m.y.y, m.z.z), Mul(m.z.y, m.y.z)), invdet),
             Mul(Sub(Mul(m.x.y, m.z.z), Mul(m.x.z, m.z.y)), invdet),
             Mul(Sub(Mul(m.x.y, m.y.z), Mul(m.x.z, m.y.y)), invdet),
             Mul(Sub(Mul(m.y.z, m.z.x), Mul(m.y.x, m.z.z)), invdet),
             Mul(Sub(Mul(m.x.x, m.z.z), Mul(m.x.z, m.z.x)), invdet),
             Mul(Sub(Mul(m.y.x, m.x.z), Mul(m.x.x, m.y.z)), invdet),
             Mul(Sub(Mul(m.y.x, m.z.y), Mul(m.z.x, m.y.y)), invdet),
             Mul(Sub(Mul(m.z.x, m.x.y), Mul(m.x.x, m.z.y)), invdet),
             Mul(Sub(Mul(m.x.x, m.y.y), Mul(m.y.x, m.x.y)), invdet))

\* m3x3_inv as it would be if it threw for a singular matrix.
m3x3_inv_throws(m) ==
    IF det(m) = Zero THEN [error |-> "singular matrix"]
    ELSE LET invdet == Div(One, det(m))
         IN  m3x3(
             Mul(Sub(Mul(m.y.y, m.z.z), Mul(m.z.y, m.y.z)), invdet),
             Mul(Sub(Mul(m.x.z, m.z.y), Mul(m.x.y, m.z.z)), invdet),
             Mul(Sub(Mul(m.x.y, m.y.z), Mul(m.x.z, m.y.y)), invdet),
             Mul(Sub(Mul(m.y.z, m.z.x), Mul(m.y.x, m.z.z)), invdet),
             Mul(Sub(Mul(m.x.x, m.z.z), Mul(m.x.z, m.z.x)), invdet),
             Mul(Sub(Mul(m.y.x, m.x.z), Mul(m.x.x, m.y.z)), invdet),
             Mul(Sub(Mul(m.y.x, m.z.y), Mul(m.z.x, m.y.y)), invdet),
             Mul(Sub(Mul(m.z.x, m.x.y), Mul(m.x.x, m.z.y)), invdet),
             Mul(Sub(Mul(m.x.x, m.y.y), Mul(m.y.x, m.x.y)), invdet))

m3x3_inv(m) ==
    IF det(m) = Zero THEN m3x3_identity
    ELSE LET invdet == Div(One, det(m))
         IN  m3x3(
             Mul(Sub(Mul(m.y.y, m.z.z), Mul(m.z.y, m.y.z)), invdet),
             Mul(Sub(Mul(m.x.z, m.z.y), Mul(m.x.y, m.z.z)), invdet),
             Mul(Sub(Mul(m.x.y, m.y.z), Mul(m.x.z, m.y.y)), invdet),
             Mul(Sub(Mul(m.y.z, m.z.x), Mul(m.y.x, m.z.z)), invdet),
             Mul(Sub(Mul(m.x.x, m.z.z), Mul(m.x.z, m.z.x)), invdet),
             Mul(Sub(Mul(m.y.x, m.x.z), Mul(m.x.x, m.y.z)), invdet),
             Mul(Sub(Mul(m.y.x, m.z.y), Mul(m.z.x, m.y.y)), invdet),
             Mul(Sub(Mul(m.z.x, m.x.y), Mul(m.x.x, m.z.y)), invdet),
             Mul(Sub(Mul(m.x.x, m.y.y), Mul(m.y.x, m.x.y)), invdet))

\* m3x3_mul without the transposition of mr.
m3x3_mul_untransposed(ml, mr) ==
    m3x3(
        v3_dot(ml.x, mr.x), v3_dot(ml.x, mr.y), v3_dot(ml.x, mr.z),
        v3_dot(ml.y, mr.x), v3_dot(ml.y, mr.y), v3_dot(ml.y, mr.z),
        v3_dot(ml.z, mr.x), v3_dot(ml.z, mr.y), v3_dot(ml.z, mr.z))

m3x3_mul(ml, mr) ==
    LET mtr == m3x3_transp(mr)
    IN  m3x3(
        v3_dot(ml.x, mtr.x), v3_dot(ml.x, mtr.y), v3_dot(ml.x, mtr.z),
        v3_dot(ml.y, mtr.x), v3_dot(ml.y, mtr.y), v3_dot(ml.y, mtr.z),
        v3_dot(ml.z, mtr.x), v3_dot(ml.z, mtr.y), v3_dot(ml.z, mtr.z))

\* v3_m3x3_mul with the columns of mr in place of its rows.
v3_m3x3_mul_columns(vl, mr) ==
    v3(v3_dot(vl, m3x3_transp(mr).x), v3_dot(vl, m3x3_transp(mr).y), v3_dot(vl, m3x3_transp(mr).z))

v3_m3x3_mul(vl, mr) == v3(v3_dot(vl, mr.x), v3_dot(vl, mr.y), v3_dot(vl, mr.z))

---------------------------------------------------------------------------
(* Inputs *)

\* The integers given as components.
Ints == -1 .. MaxVal

NumIn == {Int2Num(i) : i \in Ints}

\* The vector of integer components a, b, c.
Vec(a, b, c) == v3(Int2Num(a), Int2Num(b), Int2Num(c))

\* The vectors of real components.
VecIn == {v3(a, b, c) : a, b, c \in NumIn}

\* The matrices are those of components 0 .. MaxVal.
MatNum == {Int2Num(i) : i \in 0 .. MaxVal}

MatIn == {m3x3(a, b, c, d, e, f, g, h, i) :
            a \in MatNum, b \in MatNum, c \in MatNum,
            d \in MatNum, e \in MatNum, f \in MatNum,
            g \in MatNum, h \in MatNum, i \in MatNum}

\* Numbers including the specials, and the vectors built from them.
NumAny == NumIn \cup {NaN, Infinity, Neg(Infinity)}

VecAny == {v3(a, b, c) : a, b, c \in NumAny}

\* Strings of at most MaxStrLen characters over a sign, a digit and a letter.
MaxStrLen == 2

Chars == {"-", "1", "x"}

StrIn == {Str(s) : s \in UNION {[1..k -> Chars] : k \in 0..MaxStrLen}}

\* What a caller may hand to the constructor v3.
RawIn == NumAny \cup StrIn \cup {Undefined, Null}

\* Angles, in quarter turns.
Angles == 0 .. 3

\* The rotations m3x3_euler builds from them.
RotIn == {m3x3_euler(h, p, r) : h, p, r \in Angles}

---------------------------------------------------------------------------
(* A call of a library function and its result.  call.fn = "none" before  *)
(* the call; ret is the value the call returned, and Threw(ret) if it     *)
(* ended by throwing instead.                                             *)

NoCall == [fn |-> "none"]

Threw(r) == "error" \in DOMAIN r

Idle == call = NoCall

Returns(c, r) ==
    /\ call' = c
    /\ ret' = r
    /\ UNCHANGED <<prev, heap, pend>>

Callers == {"c1", "c2"}

NotRunning == [st |-> "idle"]

InitCall ==
    /\ call = NoCall
    /\ ret = Undefined
    /\ prev = <<>>
    /\ heap = <<>>
    /\ pend = [c \in Callers |-> NotRunning]

---------------------------------------------------------------------------
(* Vector3 calls *)

Construct ==
    /\ Idle
    /\ \E nx \in RawIn, ny \in RawIn, nz \in RawIn :
         Returns([fn |-> "v3", nx |-> nx, ny |-> ny, nz |-> nz], v3(nx, ny, nz))

CallAdd(V) ==
    /\ Idle
    /\ \E vl \in V, vr \in V :
         Returns([fn |-> "v3_add", vl |-> vl, vr |-> vr], v3_add(vl, vr))

CallSub(V) ==
    /\ Idle
    /\ \E vl \in V, vr \in V :
         Returns([fn |-> "v3_sub", vl |-> vl, vr |-> vr], v3_sub(vl, vr))

CallScale(V, S) ==
    /\ Idle
    /\ \E vl \in V, nr \in S :
         Returns([fn |-> "v3_scale", vl |-> vl, nr |-> nr], v3_scale(vl, nr))

CallLen(V) ==
    /\ Idle
    /\ \E v \in V : Returns([fn |-> "v3_len", v |-> v], v3_len(v))

CallUnit(V) ==
    /\ Idle
    /\ \E v \in V : Returns([fn |-> "v3_unit", v |-> v], v3_unit(v))

CallDot(V) ==
    /\ Idle
    /\ \E vl \in V, vr \in V :
         Returns([fn |-> "v3_dot", vl |-> vl, vr |-> vr], v3_dot(vl, vr))

\* A call of v3_cross, which runs the second declaration.
CallCross(V) ==
    /\ Idle
    /\ \E vl \in V, vr \in V :
         Returns([fn |-> "v3_cross", decl |-> 2, vl |-> vl, vr |-> vr], v3_cross(vl, vr))

\* The first declaration, run as it stands in lines 140-147.
CallCrossFirst(V) ==
    /\ Idle
    /\ \E vl \in V, vr \in V :
         Returns([fn |-> "v3_cross", decl |-> 1, vl |-> vl, vr |-> vr], v3_cross_first(vl, vr))

NextVec ==
    \/ Construct
    \/ CallAdd(VecAny)
    \/ CallSub(VecAny)
    \/ CallScale(VecAny, NumAny)
    \/ CallLen(VecAny)
    \/ CallUnit(VecAny)
    \/ CallDot(VecAny)
    \/ CallCross(VecAny)

SpecVec == InitCall /\ [][NextVec]_vars

NextCross ==
    \/ CallCross(VecIn)
    \/ CallCrossFirst(VecIn)

SpecCross == InitCall /\ [][NextCross]_vars

---------------------------------------------------------------------------
(* Matrix3x3 calls *)

CallTransp(M) ==
    /\ Idle
    /\ \E m \in M : Returns([fn |-> "m3x3_transp", m |-> m], m3x3_transp(m))

CallInv(M) ==
    /\ Idle
    /\ \E m \in M : Returns([fn |-> "m3x3_inv", m |-> m], m3x3_inv(m))

CallMul(P) ==
    /\ Idle
    /\ \E lr \in P :
         LET ml == lr[1]
             mr == lr[2]
         IN  Returns([fn |-> "m3x3_mul", ml |-> ml, mr |-> mr], m3x3_mul(ml, mr))

\* The products taken: a matrix with the identity on either side, and two
\* rotations.
MulIn ==
    ({m3x3_identity} \X MatIn) \cup (MatIn \X {m3x3_identity}) \cup (RotIn \X RotIn)

NextMat ==
    \/ CallTransp(MatIn \cup RotIn)
    \/ CallInv(MatIn \cup RotIn)
    \/ CallMul(MulIn)

---------------------------------------------------------------------------
(* Rotations: a matrix is built by m3x3_euler, a vector is transformed by *)
(* it, and the result is transformed by a second rotation.  prev holds    *)
(* the earlier calls of the run with their results.                       *)

Done == [call |-> call, ret |-> ret]

Then(c, r) ==
    /\ prev' = Append(prev, Done)
    /\ call' = c
    /\ ret' = r
    /\ UNCHANGED <<heap, pend>>

CallEuler ==
    /\ Idle
    /\ \E nhead \in Angles, npitch \in Angles, nroll \in Angles :
         Returns([fn |-> "m3x3_euler", nhead |-> nhead, npitch |-> npitch, nroll |-> nroll],
                 m3x3_euler(nhead, npitch, nroll))

\* v3_m3x3_mul of a vector and the matrix just built.
CallTransform ==
    /\ call.fn = "m3x3_euler"
    /\ \E vl \in VecIn :
         Then([fn |-> "v3_m3x3_mul", vl |-> vl, mr |-> ret], v3_m3x3_mul(vl, ret))

\* v3_m3x3_mul of the vector just returned and a second rotation.
CallTransformAgain ==
    /\ call.fn = "v3_m3x3_mul"
    /\ Len(prev) = 1
    /\ \E mr \in RotIn :
         Then([fn |-> "v3_m3x3_mul", vl |-> ret, mr |-> mr], v3_m3x3_mul(ret, mr))

NextRot ==
    \/ CallEuler
    \/ CallTransform
    \/ CallTransformAgain

SpecRot == InitCall /\ [][NextRot]_vars

SpecMat == InitCall /\ [][NextMat]_vars

---------------------------------------------------------------------------
(* Objects.  heap is the sequence of the objects constructed so far, an   *)
(* object's reference its index; a matrix object holds its three row      *)
(* objects, which m3x3 makes anew from numbers and shares with no other   *)
(* object.  A function is handed references and returns the reference of  *)
(* the object its call of v3 or m3x3 makes.  Callers run side by side: a  *)
(* caller begins a call (its arguments are read then, kept in snap),      *)
(* other callers may begin and finish calls, and the call finishes.       *)

\* The most objects constructed in one run.
MaxObjs == 5

\* The object literal of v3 (and of m3x3): a new object, the older ones kept.
Alloc(h, v) == [heap |-> Append(h, v), ref |-> Len(h) + 1]

v3_add_at(h, vl, vr) == Alloc(h, v3_add(h[vl], h[vr]))

v3_sub_at(h, vl, vr) == Alloc(h, v3_sub(h[vl], h[vr]))

\* v3_scale as it would be if it wrote the products into vl and returned vl.
v3_scale_in_place(h, vl, nr) == [heap |-> [h EXCEPT ![vl] = v3_scale(h[vl], nr)], ref |-> vl]

v3_scale_at(h, vl, nr) == Alloc(h, v3_scale(h[vl], nr))

m3x3_transp_at(h, m) == Alloc(h, m3x3_transp(h[m]))

v3_m3x3_mul_at(h, vl, mr) == Alloc(h, v3_m3x3_mul(h[vl], h[mr]))

IsMat(o) == "x" \in DOMAIN o.x

VecRefs == {i \in 1..Len(heap) : ~IsMat(heap[i])}

MatRefs == {i \in 1..Len(heap) : IsMat(heap[i])}

ScaleIn == {Int2Num(-1), Int2Num(2)}

Running == {c \in Callers : pend[c].st = "running"}

\* The objects the run starts with.
Pool == <<Vec(1, 0, -1), Vec(0, 1, 1), m3x3_euler(1, 0, 0)>>

InitHeap ==
    /\ call = NoCall
    /\ ret = Undefined
    /\ prev = <<>>
    /\ heap = Pool
    /\ pend = [c \in Callers |-> NotRunning]

Begin(c, fn, args) ==
    /\ pend[c].st # "running"
    /\ Len(heap) + Cardinality(Running) < MaxObjs
    /\ pend' = [pend EXCEPT ![c] = [st |-> "running", fn |-> fn, args |-> args]]
    /\ UNCHANGED <<call, ret, prev, heap>>

BeginAdd(c) == \E vl \in VecRefs, vr \in VecRefs : Begin(c, "v3_add", <<vl, vr>>)

BeginSub(c) == \E vl \in VecRefs, vr \in VecRefs : Begin(c, "v3_sub", <<vl, vr>>)

BeginScale(c) == \E vl \in VecRefs, nr \in ScaleIn : Begin(c, "v3_scale", <<vl, nr>>)

BeginTransp(c) == \E m \in MatRefs : Begin(c, "m3x3_transp", <<m>>)

BeginTransform(c) ==
    \E vl \in VecRefs, mr \in MatRefs : Begin(c, "v3_m3x3_mul", <<vl, mr>>)

\* The body of the function a caller runs, on the heap as it is now.
Run(h, p) ==
    CASE p.fn = "v3_add"      -> v3_add_at(h, p.args[1], p.args[2])
      [] p.fn = "v3_sub"      -> v3_sub_at(h, p.args[1], p.args[2])
      [] p.fn = "v3_scale"    -> v3_scale_at(h, p.args[1], p.args[2])
      [] p.fn = "m3x3_transp" -> m3x3_transp_at(h, p.args[1])
      [] p.fn = "v3_m3x3_mul" -> v3_m3x3_mul_at(h, p.args[1], p.args[2])

Finish(c) ==
    /\ pend[c].st = "running"
    /\ LET out == Run(heap, pend[c])
       IN  /\ heap' = out.heap
           /\ pend' = [pend EXCEPT ![c] = [st |-> "done", fn |-> pend[c].fn,
                                           args |-> pend[c].args, res |-> out.ref]]
    /\ UNCHANGED <<call, ret, prev>>

NextHeap ==
    \E c \in Callers :
        \/ BeginAdd(c)
        \/ BeginSub(c)
        \/ BeginScale(c)
        \/ BeginTransp(c)
        \/ BeginTransform(c)
        \/ Finish(c)

SpecHeap == InitHeap /\ [][NextHeap]_vars

---------------------------------------------------------------------------
(* Claims *)

Neg3(v) == [x |-> Neg(v.x), y |-> Neg(v.y), z |-> Neg(v.z)]

Scale3x3(m, k) == [x |-> v3_scale(m.x, k), y |-> v3_scale(m.y, k), z |-> v3_scale(m.z, k)]

HasNaN(v) == IsNaN(v.x) \/ IsNaN(v.y) \/ IsNaN(v.z)

AllNaN(v) == IsNaN(v.x) /\ IsNaN(v.y) /\ IsNaN(v.z)

\* C1: for every matrix m of non-zero determinant, m3x3_inv(m) is the
\* adjugate of m over the determinant: multiplied with m on either side it
\* gives the identity, and scaled by the determinant it gives a matrix that
\* multiplied with m on either side gives the determinant times the identity.
C1_InverseIsInverse ==
    (call.fn = "m3x3_inv" /\ det(call.m) # Zero) =>
        /\ m3x3_mul(ret, call.m) = m3x3_identity
        /\ m3x3_mul(call.m, ret) = m3x3_identity
        /\ LET adj == Scale3x3(ret, det(call.m))
           IN  /\ m3x3_mul(adj, call.m) = Scale3x3(m3x3_identity, det(call.m))
               /\ m3x3_mul(call.m, adj) = Scale3x3(m3x3_identity, det(call.m))

\* C1 witness: a matrix of determinant 2 was inverted, to a matrix with a
\* fractional component.
C1_Witness ==
    /\ call.fn = "m3x3_inv"
    /\ det(call.m) = Int2Num(2)
    /\ ret.x.x = Norm(1, 2)

\* C2: for every matrix m of determinant exactly 0, m3x3_inv(m) returns the
\* identity as a value and does not throw; and the identity is returned only
\* when the determinant is 0 or m is the identity, whose inverse it is.
C2_SingularGivesIdentity ==
    call.fn = "m3x3_inv" =>
        /\ ~Threw(ret)
        /\ det(call.m) = Zero => ret = m3x3_identity
        /\ ret = m3x3_identity => (det(call.m) = Zero \/ call.m = m3x3_identity)

\* C2 witness: a non-zero matrix with two equal rows was inverted to the
\* identity.
C2_Witness ==
    /\ call.fn = "m3x3_inv"
    /\ call.m.x = call.m.y
    /\ call.m.x # Vec(0, 0, 0)
    /\ call.m.z # Vec(0, 0, 0)
    /\ ret = m3x3_identity

\* C5: m3x3_identity is a two-sided identity of m3x3_mul, and every
\* component of a product is the dot product of a row of the left matrix
\* with a column of the right one.
C5_IdentityIsNeutral ==
    call.fn = "m3x3_mul" =>
        /\ call.ml = m3x3_identity => ret = call.mr
        /\ call.mr = m3x3_identity => ret = call.ml
        /\ LET r  == call.mr
               cx == [x |-> r.x.x, y |-> r.y.x, z |-> r.z.x]
               cy == [x |-> r.x.y, y |-> r.y.y, z |-> r.z.y]
               cz == [x |-> r.x.z, y |-> r.y.z, z |-> r.z.z]
               Row(l) == [x |-> v3_dot(l, cx), y |-> v3_dot(l, cy), z |-> v3_dot(l, cz)]
           IN  ret = [x |-> Row(call.ml.x), y |-> Row(call.ml.y), z |-> Row(call.ml.z)]

\* C5 witness: a matrix that is neither symmetric nor the identity was
\* multiplied with the identity on its left.
C5_Witness ==
    /\ call.fn = "m3x3_mul"
    /\ call.ml = m3x3_identity
    /\ call.mr # m3x3_transp(call.mr)
    /\ ret = call.mr

\* C9: the transpose of the transpose of m is m, and row i of the transpose
\* of m is column i of m.
C9_TransposeInvolution ==
    call.fn = "m3x3_transp" =>
        /\ m3x3_transp(ret) = call.m
        /\ ret.x = [x |-> call.m.x.x, y |-> call.m.y.x, z |-> call.m.z.x]
        /\ ret.y = [x |-> call.m.x.y, y |-> call.m.y.y, z |-> call.m.z.y]
        /\ ret.z = [x |-> call.m.x.z, y |-> call.m.y.z, z |-> call.m.z.z]

\* C9 witness: a matrix that is not symmetric was transposed.
C9_Witness ==
    /\ call.fn = "m3x3_transp"
    /\ ret # call.m
    /\ m3x3_transp(ret) = call.m

\* C6: for all vectors vl and vr of real components, v3_cross(vl, vr) is
\* orthogonal to vl and to vr and is the negative of v3_cross(vr, vl), the
\* cross product of (1,0,0) and (0,1,0) is (0,0,1) and that of (0,1,0) and
\* (1,0,0) is (0,0,-1), and the two declarations of v3_cross return the same
\* vector.
C6_CrossProduct ==
    call.fn = "v3_cross" =>
        /\ v3_dot(ret, call.vl) = Zero
        /\ v3_dot(ret, call.vr) = Zero
        /\ ret = Neg3(v3_cross(call.vr, call.vl))
        /\ ret = Neg3(v3_cross_first(call.vr, call.vl))
        /\ ret = v3_cross(call.vl, call.vr)
        /\ ret = v3_cross_first(call.vl, call.vr)
        /\ (call.vl = Vec(1, 0, 0) /\ call.vr = Vec(0, 1, 0)) => ret = Vec(0, 0, 1)
        /\ (call.vl = Vec(0, 1, 0) /\ call.vr = Vec(1, 0, 0)) => ret = Vec(0, 0, -1)

\* C6 witness: the first declaration returned (0,0,-1) for (0,1,0) and
\* (1,0,0).
C6_Witness ==
    /\ call.fn = "v3_cross"
    /\ call.decl = 1
    /\ call.vl = Vec(0, 1, 0)
    /\ call.vr = Vec(1, 0, 0)
    /\ ret = Vec(0, 0, -1)

C3_ComposesInMulOrder ==
    (call.fn = "v3_m3x3_mul" /\ Len(prev) = 2) =>
        ret = v3_m3x3_mul(prev[2].call.vl, m3x3_mul(prev[2].call.mr, call.mr))

\* C4: the vector (1,0,0), transformed by the matrix m3x3_euler builds for a
\* head of a quarter turn, no pitch and no roll, is (0,-1,0).
C4_QuarterTurnOfX ==
    (/\ call.fn = "v3_m3x3_mul"
     /\ Len(prev) = 1
     /\ prev[1].call = [fn |-> "m3x3_euler", nhead |-> 1, npitch |-> 0, nroll |-> 0]
     /\ call.vl = Vec(1, 0, 0)) =>
        ret = Vec(0, -1, 0)

\* C4 as amended: that matrix has the rows (0,0,1), (0,1,0) and (-1,0,0),
\* and (1,0,0) transformed by it, the dot products of (1,0,0) with the three
\* rows, is (0,0,-1).
C4_QuarterTurnOfXAmended ==
    (/\ call.fn = "v3_m3x3_mul"
     /\ Len(prev) = 1
     /\ prev[1].call = [fn |-> "m3x3_euler", nhead |-> 1, npitch |-> 0, nroll |-> 0]
     /\ call.vl = Vec(1, 0, 0)) =>
        /\ call.mr = [x |-> Vec(0, 0, 1), y |-> Vec(0, 1, 0), z |-> Vec(-1, 0, 0)]
        /\ ret = Vec(0, 0, -1)

\* C4 witness: (1,0,0) was transformed by that matrix.
C4_Witness ==
    /\ call.fn = "v3_m3x3_mul"
    /\ Len(prev) = 1
    /\ prev[1].call = [fn |-> "m3x3_euler", nhead |-> 1, npitch |-> 0, nroll |-> 0]
    /\ call.vl = Vec(1, 0, 0)
    /\ ret = Vec(0, 0, -1)

\* C10: m3x3_euler of no head, no pitch and no roll is the identity matrix.
C10_EulerOfZero ==
    call = [fn |-> "m3x3_euler", nhead |-> 0, npitch |-> 0, nroll |-> 0] =>
        ret = m3x3_identity

\* C10 witness: m3x3_euler was called with three zero angles and returned
\* the rows (1,0,0), (0,1,0), (0,0,1).
C10_Witness ==
    /\ call = [fn |-> "m3x3_euler", nhead |-> 0, npitch |-> 0, nroll |-> 0]
    /\ ret = [x |-> Vec(1, 0, 0), y |-> Vec(0, 1, 0), z |-> Vec(0, 0, 1)]

\* The value a finished call should have returned, from the objects its
\* arguments refer to.
Value(h, p) ==
    CASE p.fn = "v3_add"      -> v3_add(h[p.args[1]], h[p.args[2]])
      [] p.fn = "v3_sub"      -> v3_sub(h[p.args[1]], h[p.args[2]])
      [] p.fn = "v3_scale"    -> v3_scale(h[p.args[1]], p.args[2])
      [] p.fn = "m3x3_transp" -> m3x3_transp(h[p.args[1]])
      [] p.fn = "v3_m3x3_mul" -> v3_m3x3_mul(h[p.args[1]], h[p.args[2]])

\* C8: no step of any caller changes an object constructed before it, a
\* call returns an object that did not exist when it began to return, and
\* the object a finished call returned is the function of the objects
\* given to it, whatever calls ran before, between its beginning and its
\* end, and after it.
C8_ValuesImmutable ==
    [][/\ \A i \in 1..Len(heap) : i <= Len(heap') /\ heap'[i] = heap[i]
       /\ \A c \in Callers :
            pend'[c].st = "done" =>
                /\ heap'[pend'[c].res] = Value(heap', pend'[c])
                /\ pend[c].st = "running" => pend'[c].res > Len(heap)]_vars

\* C8 witness: one caller scaled object 1, the other added object 1 and the
\* scaled vector, and object 1 is as it was constructed.
C8_Witness ==
    /\ pend["c1"].st = "done"
    /\ pend["c2"].st = "done"
    /\ pend["c1"].fn = "v3_scale"
    /\ pend["c1"].args[1] = 1
    /\ pend["c2"].fn = "v3_add"
    /\ pend["c2"].args = <<1, pend["c1"].res>>
    /\ heap[1] = Pool[1]
    /\ Len(heap) = 5

====
